---- MODULE Spec2Model ----
(***************************************************************************)
(* A model of beautifultable's row/column data model (BTRows, BTColumns,   *)
(* BeautifulTable.__copy__), of its automatic width allocation             *)
(* (BeautifulTable._calculate_width), of the generator behind get_string   *)
(* and stream (_get_string), and of the text of one line                   *)
(* (_clamp_string, BTRowData.__str__, _get_horizontal_line).               *)
(*                                                                         *)
(* Python objects that can be shared between two tables after a shallow    *)
(* copy (the row-header list and the five column metadata lists) live in   *)
(* `heap`; a table refers to them through `ref`.  Row cells are values;    *)
(* the identity of row objects and their _table is followed in `rowobjs`.  *)
(***************************************************************************)
EXTENDS Integers, Sequences, FiniteSets, TLC

VARIABLES tables, heap, err, last,
          natural, colwidth, padleft, padright, maxw, cfgmaxw, style, werr, wlast,
          gen, chars, clamp, rowobjs, line

vars == <<tables, heap, err, last,
          natural, colwidth, padleft, padright, maxw, cfgmaxw, style, werr, wlast,
          gen, chars, clamp, rowobjs, line>>
tvars == <<tables, heap, err, last>>
wvars == <<natural, colwidth, padleft, padright, maxw, cfgmaxw, style, werr, wlast>>
rvars == <<gen, chars, clamp, rowobjs, line>>

(* ------------------------------ bounds --------------------------------- *)
MaxRows == 2
MaxCols == 2
MaxWCols == 3
MaxNatural == 3
MaxBudget == 12

(* --------------------------- program constants ------------------------- *)
DefaultPadding == 1

None == "None"
ColLabels == {"a"}
RowLabels == {"r"}
DefaultAlignment == "center"

Attrs == {"rheader", "header", "alignment", "width", "padding_left", "padding_right"}
TableIds == {1, 2}
Other(t) == 3 - t

Min(S) == CHOOSE x \in S : \A y \in S : x <= y
Max(S) == CHOOSE x \in S : \A y \in S : x >= y

SeqsUpTo(S, n) == UNION {[1..k -> S] : k \in 0..n}
Repeat(x, n) == [j \in 1..n |-> x]

(* ------------------- Python list semantics (0-based) ------------------- *)
NormIdx(i, n) == IF i < 0 THEN i + n ELSE i
InRange(i, n) == NormIdx(i, n) >= 0 /\ NormIdx(i, n) < n

\* list.insert(i, x): the index is clamped into 0..len
ListInsert(s, i, x) ==
    LET k0 == NormIdx(i, Len(s))
        k  == IF k0 < 0 THEN 0 ELSE IF k0 > Len(s) THEN Len(s) ELSE k0
    IN  SubSeq(s, 1, k) \o <<x>> \o SubSeq(s, k + 1, Len(s))

\* del s[i] / s.pop(i) for an index that is in range
ListDel(s, i) ==
    LET k == NormIdx(i, Len(s))
    IN  SubSeq(s, 1, k) \o SubSeq(s, k + 2, Len(s))

ListSet(s, i, x) == [s EXCEPT ![NormIdx(i, Len(s)) + 1] = x]

\* s.index(x): 0-based position of the first occurrence, -1 when absent
ListIndex(s, x) ==
    LET hits == {j \in 1..Len(s) : s[j] = x}
    IN  IF hits = {} THEN 0 - 1 ELSE Min(hits) - 1

\* s.reverse()
ListReverse(s) == [j \in 1..Len(s) |-> s[Len(s) + 1 - j]]

\* the order of the cell texts under <
CellOrder == <<"w", "x", "y", "z">>

\* s.sort(key=itemgetter(key), reverse=reverse), a stable sort: each row goes
\* behind the rows it does not precede
RECURSIVE ListSort(_, _, _)
ListSort(s, key, reverse) ==
    IF s = <<>> THEN <<>>
    ELSE LET row == s[Len(s)]
             done == ListSort(SubSeq(s, 1, Len(s) - 1), key, reverse)
             rank(r) == ListIndex(CellOrder, r[NormIdx(key, Len(r)) + 1])
             before(a, b) == IF reverse THEN rank(a) > rank(b) ELSE rank(a) < rank(b)
             k == Cardinality({j \in 1..Len(done) : ~before(row, done[j])})
         IN  SubSeq(done, 1, k) \o <<row>> \o SubSeq(done, k + 1, Len(done))

\* BTBaseRow construction: a value of the wrong length is rejected once the
\* column count is fixed
BTBaseRowValid(ncol, value) == ncol = 0 \/ Len(value) = ncol

\* BTRowData(table, row) * n
RowTimes(row, n) == Repeat(row, n)

(* ----------------------------- the world ------------------------------- *)
Get(w, t, a) == w.H[a][w.T[t].ref[a]]

\* in-place mutation of the object an attribute refers to
Put(w, t, a, v) == [w EXCEPT !.H[a][w.T[t].ref[a]] = v]

\* rebinding of an attribute to a freshly constructed object
NewObj(w, t, a, v) ==
    LET cur    == w.T[t].ref[a]
        shared == w.T[Other(t)].live /\ w.T[Other(t)].ref[a] = cur
        slot   == IF shared THEN 3 - cur ELSE cur
    IN  [w EXCEPT !.T[t].ref[a] = slot, !.H[a][slot] = v]

Ok(w) == [w |-> w, err |-> "ok"]
Raise(w, e) == [w |-> w, err |-> e]

IntKey(i) == [k |-> "int", i |-> i, s |-> ""]
StrKey(s) == [k |-> "str", i |-> 0, s |-> s]
SliceAll == [k |-> "slice", i |-> 0, s |-> ""]

NRows(w, t) == Len(w.T[t].data)
NCols(w, t) == w.T[t].ncol

\* BTColumns._canonical_key / BTRows._canonical_key for int and str keys
CanonicalKey(hdr, key) ==
    IF key.k = "int" THEN [ok |-> TRUE, i |-> key.i]
    ELSE IF ListIndex(hdr, key.s) < 0 THEN [ok |-> FALSE, i |-> 0]
    ELSE [ok |-> TRUE, i |-> ListIndex(hdr, key.s)]

(* ---------------------------- _reset_state ----------------------------- *)
ColumnsResetState(w, t, n) ==
    LET w0 == [w EXCEPT !.T[t].ncol = n]
        w1 == NewObj(w0, t, "header", Repeat(None, n))
        w2 == NewObj(w1, t, "alignment", Repeat(DefaultAlignment, n))
        w3 == NewObj(w2, t, "width", Repeat(0, n))
        w4 == NewObj(w3, t, "padding_left", Repeat(DefaultPadding, n))
        w5 == NewObj(w4, t, "padding_right", Repeat(DefaultPadding, n))
    IN  [w5 EXCEPT !.T[t].data = RowTimes(Repeat(None, n), Len(w.T[t].data)),
                   !.T[t].plain = FALSE]

RowsResetState(w, t, nrow) ==
    LET w1 == [w EXCEPT !.T[t].data = RowTimes(Repeat(None, w.T[t].ncol), nrow),
                        !.T[t].plain = FALSE]
    IN  NewObj(w1, t, "rheader", Repeat(None, nrow))

(* ------------------------------- BTRows -------------------------------- *)
RowsInsert(w, t, index, row, header) ==
    LET w1 == IF w.T[t].ncol = 0 THEN ColumnsResetState(w, t, Len(row)) ELSE w
        w2 == Put(w1, t, "rheader", ListInsert(Get(w1, t, "rheader"), index, header))
    IN  IF ~BTBaseRowValid(w2.T[t].ncol, row) THEN Raise(w2, "ValueError")
        ELSE Ok([w2 EXCEPT !.T[t].data = ListInsert(@, index, row)])

RowsAppend(w, t, row, header) == RowsInsert(w, t, NRows(w, t), row, None)

RowsDelItem(w, t, key) ==
    LET data == w.T[t].data
        rh   == Get(w, t, "rheader")
    IN  IF key.k = "slice"
        THEN Ok(Put([w EXCEPT !.T[t].data = <<>>], t, "rheader", <<>>))
        ELSE IF key.k = "str" /\ w.T[t].plain THEN Raise(w, "TypeError")
        ELSE LET c == CanonicalKey(rh, key)
             IN  IF ~c.ok THEN Raise(w, "KeyError")
                 ELSE IF ~InRange(c.i, Len(data)) THEN Raise(w, "IndexError")
                 ELSE LET w1 == [w EXCEPT !.T[t].data = ListDel(data, c.i)]
                      IN  IF key.k = "str" THEN Raise(w1, "TypeError")
                          ELSE IF ~InRange(key.i, Len(rh)) THEN Raise(w1, "IndexError")
                          ELSE Ok(Put(w1, t, "rheader", ListDel(rh, key.i)))

RowsPop(w, t, key) ==
    LET data == w.T[t].data
        rh   == Get(w, t, "rheader")
        c    == CanonicalKey(rh, key)
    IN  IF Len(data) = 0 THEN Raise(w, "IndexError")
        ELSE IF w.T[t].plain THEN Raise(w, "AttributeError")
        ELSE IF ~c.ok THEN Raise(w, "KeyError")
        ELSE IF ~InRange(c.i, Len(data)) THEN Raise(w, "IndexError")
        ELSE LET w1 == [w EXCEPT !.T[t].data = ListDel(data, c.i)]
             IN  IF ~InRange(c.i, Len(rh)) THEN Raise(w1, "IndexError")
                 ELSE Ok(Put(w1, t, "rheader", ListDel(rh, c.i)))

RowsSetItem(w, t, key, value) ==
    LET data == w.T[t].data
        c    == CanonicalKey(Get(w, t, "rheader"), key)
    IN  IF ~BTBaseRowValid(w.T[t].ncol, value) THEN Raise(w, "ValueError")
        ELSE IF key.k = "str" /\ w.T[t].plain THEN Raise(w, "TypeError")
        ELSE IF ~c.ok THEN Raise(w, "KeyError")
        ELSE IF ~InRange(c.i, Len(data)) THEN Raise(w, "IndexError")
        ELSE Ok([w EXCEPT !.T[t].data = ListSet(data, c.i, value)])

RowsClear(w, t) == Ok(RowsResetState(w, t, 0))

RowsReverse(w, t) == Ok([w EXCEPT !.T[t].data = ListReverse(@)])

\* sort by the column at an int key; itemgetter raises for a row that has no
\* such item, < raises when a cell compared is None
RowsSort(w, t, key, reverse) ==
    LET data == w.T[t].data
    IN  IF \E j \in 1..Len(data) : ~InRange(key, Len(data[j])) THEN Raise(w, "IndexError")
        ELSE IF Len(data) > 1
                /\ \E j \in 1..Len(data) : data[j][NormIdx(key, Len(data[j])) + 1] = None
        THEN Raise(w, "TypeError")
        ELSE Ok([w EXCEPT !.T[t].data = ListSort(data, key, reverse)])

(* ------------------------------ BTColumns ------------------------------ *)
MetaAttrs == <<"alignment", "width", "padding_left", "padding_right">>

\* item deletion from the metadata lists, in the order given; stops at the
\* first list that has no such index
RECURSIVE DelMeta(_, _, _, _)
DelMeta(w, t, as, i) ==
    IF as = <<>> THEN Ok(w)
    ELSE LET s == Get(w, t, Head(as))
         IN  IF ~InRange(i, Len(s)) THEN Raise(w, "IndexError")
             ELSE DelMeta(Put(w, t, Head(as), ListDel(s, i)), t, Tail(as), i)

\* `for row in rows: del row[i]` (or row._pop(i)): rows before the first row
\* that has no such index are changed, then IndexError
FirstBadRow(data, i) ==
    LET bad == {j \in 1..Len(data) : ~InRange(i, Len(data[j]))}
    IN  IF bad = {} THEN 0 ELSE Min(bad)

DelInRows(data, i) ==
    LET b == FirstBadRow(data, i)
    IN  [data |-> [j \in 1..Len(data) |->
                      IF b = 0 \/ j < b THEN ListDel(data[j], i) ELSE data[j]],
         err  |-> IF b = 0 THEN "ok" ELSE "IndexError"]

\* the tail shared by __delitem__ and pop: the column count follows the
\* header, and draining the last column deletes every row
AfterColumnRemoved(w, t) ==
    LET w1 == [w EXCEPT !.T[t].ncol = Len(Get(w, t, "header"))]
    IN  IF w1.T[t].ncol = 0 THEN RowsDelItem(w1, t, SliceAll) ELSE Ok(w1)

ColumnsDelItem(w, t, key) ==
    LET c == CanonicalKey(Get(w, t, "header"), key)
    IN  IF ~c.ok THEN Raise(w, "KeyError")
        ELSE LET m == DelMeta(w, t, MetaAttrs, c.i)
             IN  IF m.err # "ok" THEN m
                 ELSE LET d  == DelInRows(m.w.T[t].data, c.i)
                          w1 == [m.w EXCEPT !.T[t].data = d.data]
                      IN  IF d.err # "ok" THEN Raise(w1, d.err)
                          ELSE LET h == DelMeta(w1, t, <<"header">>, c.i)
                               IN  IF h.err # "ok" THEN h
                                   ELSE AfterColumnRemoved(h.w, t)

ColumnsPop(w, t, key) ==
    LET c == CanonicalKey(Get(w, t, "header"), key)
    IN  IF w.T[t].ncol = 0 THEN Raise(w, "IndexError")
        ELSE IF ~c.ok THEN Raise(w, "KeyError")
        ELSE LET d  == DelInRows(w.T[t].data, c.i)
                 w1 == [w EXCEPT !.T[t].data = d.data]
             IN  IF d.err # "ok" THEN Raise(w1, d.err)
                 ELSE LET m == DelMeta(w1, t, MetaAttrs \o <<"header">>, c.i)
                      IN  IF m.err # "ok" THEN m
                          ELSE AfterColumnRemoved(m.w, t)

\* `for row, new_item in zip(rows, value): row[key] = new_item`
ColumnsSetItem(w, t, key, value) ==
    LET c    == CanonicalKey(Get(w, t, "header"), key)
        data == w.T[t].data
        n    == IF Len(value) < Len(data) THEN Len(value) ELSE Len(data)
        bad  == {j \in 1..n : ~InRange(c.i, Len(data[j]))}
        b    == IF bad = {} THEN 0 ELSE Min(bad)
        new  == [j \in 1..Len(data) |->
                    IF j <= n /\ (b = 0 \/ j < b)
                    THEN ListSet(data[j], c.i, value[j]) ELSE data[j]]
    IN  IF ~c.ok THEN (IF n = 0 THEN Ok(w) ELSE Raise(w, "KeyError"))
        ELSE IF b # 0 THEN Raise([w EXCEPT !.T[t].data = new], "IndexError")
        ELSE Ok([w EXCEPT !.T[t].data = new])

\* the roll-back loop of insert: `for j in range(column_length, -1, -1):
\* rows[j]._pop(index)`; j is a 0-based row index
RECURSIVE RollBack(_, _, _)
RollBack(data, j, index) ==
    IF j < 0 THEN [data |-> data, err |-> "ok"]
    ELSE IF ~InRange(index, Len(data[j + 1])) THEN [data |-> data, err |-> "IndexError"]
    ELSE RollBack([data EXCEPT ![j + 1] = ListDel(@, index)], j - 1, index)

ColumnsInsert(w, t, index, column, header) ==
    IF w.T[t].ncol = 0
    THEN LET w1 == NewObj(w, t, "header", <<header>>)
         IN  Ok([w1 EXCEPT !.T[t].data = [j \in 1..Len(column) |-> <<column[j]>>],
                           !.T[t].plain = TRUE])
    ELSE IF header = None THEN Raise(w, "TypeError")
    ELSE LET data == w.T[t].data
             column_length == IF Len(column) < Len(data) THEN Len(column) ELSE Len(data)
             ins  == [j \in 1..Len(data) |->
                         IF j <= column_length
                         THEN ListInsert(data[j], index, column[j]) ELSE data[j]]
             w1   == [w EXCEPT !.T[t].data = ins]
         IN  IF column_length = Len(data)
             THEN LET w2 == [w1 EXCEPT !.T[t].ncol = @ + 1]
                      w3 == Put(w2, t, "header",
                                ListInsert(Get(w2, t, "header"), index, header))
                      w4 == Put(w3, t, "width",
                                ListInsert(Get(w3, t, "width"), index, 0))
                      w5 == Put(w4, t, "alignment",
                                ListInsert(Get(w4, t, "alignment"), index, DefaultAlignment))
                      w6 == Put(w5, t, "padding_left",
                                ListInsert(Get(w5, t, "padding_left"), index, DefaultPadding))
                  IN  Ok(Put(w6, t, "padding_right",
                             ListInsert(Get(w6, t, "padding_right"), index, DefaultPadding)))
             ELSE LET r == RollBack(ins, column_length, index)
                  IN  Raise([w EXCEPT !.T[t].data = r.data],
                            IF r.err = "ok" THEN "ValueError" ELSE r.err)

ColumnsAppend(w, t, column, header) == ColumnsInsert(w, t, w.T[t].ncol, column, header)

ColumnsClear(w, t) == Ok(ColumnsResetState(w, t, 0))

\* the setter of columns.header
ColumnsSetHeader(w, t, value) ==
    IF ~BTBaseRowValid(w.T[t].ncol, value) THEN Raise(w, "ValueError")
    ELSE Ok(NewObj(w, t, "header", value))

\* columns.width[i] = v
ColumnsWidthSetItem(w, t, i, v) ==
    LET s == Get(w, t, "width")
    IN  IF ~InRange(i, Len(s)) THEN Raise(w, "IndexError")
        ELSE Ok(Put(w, t, "width", ListSet(s, i, v)))

\* rows.header[i] = v
RowsHeaderSetItem(w, t, i, v) ==
    LET s == Get(w, t, "rheader")
    IN  IF ~InRange(i, Len(s)) THEN Raise(w, "IndexError")
        ELSE Ok(Put(w, t, "rheader", ListSet(s, i, v)))

\* columns[start:stop:step]: copy.copy(self) copies the BTColumns collection
\* itself, not its table; the copy has no attribute `columns`, so line 797
\* raises AttributeError before any list of the original is touched
ColumnsGetSlice(w, src, dst, start, stop, step) ==
    Raise(w, "AttributeError")

(* --------------------------- BeautifulTable ---------------------------- *)
TableClear(w, t, reset_columns) ==
    LET w1 == RowsResetState(w, t, 0)
    IN  IF reset_columns THEN ColumnsClear(w1, t) ELSE Ok(w1)

\* copy.copy(table): the new table's rows and columns collections are
\* shallow copies, so every list they hold is the very object of the original
Copy(w, src, dst) ==
    [w EXCEPT !.T[dst] = [w.T[src] EXCEPT !.live = TRUE]]

\* the indices range(start, stop, step) selects from a list of n items
SliceIndices(start, stop, step, n) ==
    LET lo == IF start > n THEN n ELSE start
        hi == IF stop > n THEN n ELSE stop
    IN  {j \in 0..(n - 1) : j >= lo /\ j < hi /\ (j - lo) % step = 0}

RECURSIVE AppendRows(_, _, _)
AppendRows(w, t, rws) ==
    IF rws = <<>> THEN Ok(w)
    ELSE LET r == RowsAppend(w, t, Head(rws), None)
         IN  IF r.err # "ok" THEN r ELSE AppendRows(r.w, t, Tail(rws))

RECURSIVE Pick(_, _, _)
Pick(s, idx, j) ==
    IF j > Len(s) THEN <<>>
    ELSE (IF (j - 1) \in idx THEN <<s[j]>> ELSE <<>>) \o Pick(s, idx, j + 1)

\* rows[start:stop:step] of table src, built as table dst
RowsGetSlice(w, src, dst, start, stop, step) ==
    LET sel == Pick(w.T[src].data, SliceIndices(start, stop, step, NRows(w, src)), 1)
        w1  == Copy(w, src, dst)
        w2  == [w1 EXCEPT !.T[dst].data = <<>>, !.T[dst].plain = FALSE]
    IN  AppendRows(w2, dst, sel)

RowsFilterKeepingRows(w, src, dst, key) ==
    LET sel == SelectSeq(w.T[src].data, LAMBDA row : \E v \in key : row[1] = v)
    IN  AppendRows(Copy(w, src, dst), dst, sel)

\* rows.filter(key) of table src, built as table dst; the predicate holds
\* for the rows whose first cell is in key
RowsFilter(w, src, dst, key) ==
    LET sel == SelectSeq(w.T[src].data, LAMBDA row : \E v \in key : row[1] = v)
        w1  == RowsResetState(Copy(w, src, dst), dst, 0)
    IN  AppendRows(w1, dst, sel)

(* ------------------------- state and operations ------------------------ *)
W == [T |-> tables, H |-> heap]

Live == {t \in TableIds : tables[t].live}
RowHeaders == RowLabels \cup {None}
ColHeaders == ColLabels \cup {None}
\* rows are inserted as rows of "x", columns as columns of "y"
RowInputs == {Repeat("x", k) : k \in 0..MaxCols}
ColumnInputs == {Repeat("y", k) : k \in 0..MaxRows}
RowIntKeys == {IntKey(i) : i \in (0 - 1)..MaxRows}
ColKeys == {IntKey(i) : i \in (0 - 1)..MaxCols} \cup {StrKey(s) : s \in ColLabels}

EmptyTable(live) ==
    [live |-> live, ncol |-> 0, data |-> <<>>, plain |-> FALSE,
     ref |-> [a \in Attrs |-> 1]]

EmptyHeap == [a \in Attrs |-> [s \in {1, 2} |-> <<>>]]

\* BeautifulTable(): no rows, no columns
TInit ==
    /\ tables = [t \in TableIds |-> EmptyTable(t = 1)]
    /\ heap = EmptyHeap
    /\ err = "ok"
    /\ last = "init"

\* the state a call leaves behind, whether it returned or raised
Done(r, name) ==
    /\ tables' = r.w.T
    /\ heap' = r.w.H
    /\ err' = r.err
    /\ last' = name
    /\ UNCHANGED wvars
    /\ UNCHANGED rvars

RowsShort(t) == \A j \in 1..NRows(W, t) : Len(tables[t].data[j]) < MaxCols

DoRowsInsert(t, index, row, header) ==
    /\ t \in Live
    /\ NRows(W, t) < MaxRows
    /\ Len(Get(W, t, "rheader")) <= MaxRows
    /\ Done(RowsInsert(W, t, index, row, header), "rows.insert")

DoRowsAppend(t, row, header) ==
    /\ t \in Live
    /\ NRows(W, t) < MaxRows
    /\ Len(Get(W, t, "rheader")) <= MaxRows
    /\ Done(RowsAppend(W, t, row, header), "rows.append")

DoRowsPop(t, key) ==
    /\ t \in Live
    /\ Done(RowsPop(W, t, key), "rows.pop")

DoRowsDelItem(t, key) ==
    /\ t \in Live
    /\ Done(RowsDelItem(W, t, key), "rows.__delitem__")

DoRowsUpdate(t, key, value) ==
    /\ t \in Live
    /\ Done(RowsSetItem(W, t, key, value), "rows.update")

DoRowsClear(t) ==
    /\ t \in Live
    /\ Done(RowsClear(W, t), "rows.clear")

DoRowsReverse(t) ==
    /\ t \in Live
    /\ Done(RowsReverse(W, t), "rows.reverse")

DoRowsSort(t, key, reverse) ==
    /\ t \in Live
    /\ Done(RowsSort(W, t, key, reverse), "rows.sort")

DoColumnsInsert(t, index, column, header) ==
    /\ t \in Live
    /\ NCols(W, t) < MaxCols
    /\ RowsShort(t)
    /\ index <= NCols(W, t)
    /\ Done(ColumnsInsert(W, t, index, column, header), "columns.insert")

DoColumnsAppend(t, column, header) ==
    /\ t \in Live
    /\ NCols(W, t) < MaxCols
    /\ RowsShort(t)
    /\ Done(ColumnsAppend(W, t, column, header), "columns.append")

DoColumnsPop(t, key) ==
    /\ t \in Live
    /\ Done(ColumnsPop(W, t, key), "columns.pop")

DoColumnsDelItem(t, key) ==
    /\ t \in Live
    /\ Done(ColumnsDelItem(W, t, key), "columns.__delitem__")

DoColumnsUpdate(t, key, value) ==
    /\ t \in Live
    /\ Done(ColumnsSetItem(W, t, key, value), "columns.update")

DoColumnsClear(t) ==
    /\ t \in Live
    /\ Done(ColumnsClear(W, t), "columns.clear")

DoColumnsSetHeader(t, value) ==
    /\ t \in Live
    /\ Done(ColumnsSetHeader(W, t, value), "columns.header")

DoColumnsWidthSetItem(t, i, v) ==
    /\ t \in Live
    /\ Done(ColumnsWidthSetItem(W, t, i, v), "columns.width[i]")

DoRowsHeaderSetItem(t, i, v) ==
    /\ t \in Live
    /\ Done(RowsHeaderSetItem(W, t, i, v), "rows.header[i]")

DoTableClear(t, reset_columns) ==
    /\ t \in Live
    /\ Done(TableClear(W, t, reset_columns), "table.clear")

\* new = table.rows[start:stop:step]; when the call raises, no new table is
\* returned and only its effects on the objects of the original remain
DoRowsGetSlice(start, stop, step) ==
    /\ ~tables[2].live
    /\ LET r == RowsGetSlice(W, 1, 2, start, stop, step)
       IN  IF r.err = "ok" THEN Done(r, "rows[slice]")
           ELSE Done(Raise([T |-> [r.w.T EXCEPT ![2] = EmptyTable(FALSE)],
                            H |-> [a \in Attrs |-> [r.w.H[a] EXCEPT ![2] = <<>>]]],
                           r.err), "rows[slice]")

\* new = table.columns[start:stop:step]
DoColumnsGetSlice(start, stop, step) ==
    /\ ~tables[2].live
    /\ Done(ColumnsGetSlice(W, 1, 2, start, stop, step), "columns[slice]")

\* new = table.rows.filter(key), once the table has been rendered
DoRowsFilter(key) ==
    /\ ~tables[2].live
    /\ gen.pc = "done"
    /\ Done(RowsFilter(W, 1, 2, key), "rows.filter")

\* the width allocator's variables, at rest while the data model runs
WIdle ==
    /\ natural = <<>> /\ colwidth = <<>> /\ padleft = <<>> /\ padright = <<>>
    /\ maxw = 0 /\ cfgmaxw = 0 /\ style = <<0, 0, 0>> /\ werr = "ok" /\ wlast = "init"

\* the characters of the horizontal lines (set_style), and the frame of the
\* generator _get_string, at rest while no render runs
DefaultChars == [top |-> "-", header_separator |-> "-", row_separator |-> "-", bottom |-> "-"]

\* the row objects and the back-references (_table) of rows, of the rows
\* collection and of the columns collection, not followed outside SpecBackref
NoRowObjs == [ids |-> <<<<>>, <<>>>>, table |-> <<>>, rows |-> <<1, 2>>, columns |-> <<1, 2>>]

\* no line of the table is being drawn
NoLine == [op |-> "none", width |-> <<>>, border |-> <<>>, args |-> <<>>, out |-> <<>>]

\* no cell text is being clamped
NoClamp == [row_item |-> <<>>, width |-> 0, delimiter |-> <<>>, out |-> <<>>, done |-> FALSE]

IdleGen ==
    [pc |-> "idle", mode |-> "none", serialno |-> FALSE, append |-> FALSE,
     recalculate_width |-> FALSE, rows |-> <<>>, k |-> 0,
     first_row_encountered |-> FALSE, prev_length |-> 0, i |-> 0,
     out |-> <<>>, before |-> <<>>, abandoned |-> FALSE]

(* ---------- Spec: one table under every row and column operation -------- *)
Init ==
    /\ TInit /\ WIdle /\ gen = IdleGen /\ chars = DefaultChars /\ clamp = NoClamp
    /\ rowobjs = NoRowObjs /\ line = NoLine

Next ==
    \/ \E index \in 0..MaxRows, row \in RowInputs : DoRowsInsert(1, index, row, None)
    \/ \E row \in RowInputs, header \in RowHeaders : DoRowsAppend(1, row, header)
    \/ \E key \in RowIntKeys : DoRowsPop(1, key)
    \/ \E key \in RowIntKeys \cup {SliceAll} : DoRowsDelItem(1, key)
    \/ \E key \in RowIntKeys, value \in RowInputs : DoRowsUpdate(1, key, value)
    \/ DoRowsClear(1)
    \/ \E index \in 0..MaxCols, column \in ColumnInputs, h \in ColHeaders :
          DoColumnsInsert(1, index, column, h)
    \/ \E column \in ColumnInputs, h \in ColHeaders : DoColumnsAppend(1, column, h)
    \/ \E key \in ColKeys : DoColumnsPop(1, key)
    \/ \E key \in ColKeys : DoColumnsDelItem(1, key)
    \/ \E key \in ColKeys, value \in ColumnInputs : DoColumnsUpdate(1, key, value)
    \/ DoColumnsClear(1)
    \/ \E value \in SeqsUpTo(ColHeaders, MaxCols) : DoColumnsSetHeader(1, value)
    \/ \E rc \in BOOLEAN : DoTableClear(1, rc)

Spec == Init /\ [][Next]_vars

(* ---------------------- column width allocation ------------------------ *)
\* A table as _calculate_width sees it: natural[i] is the widest line of
\* column i (header and cells, pre_process + termwidth), colwidth is
\* columns.width, style holds the widths of the separator and the borders.
RECURSIVE Sum(_)
Sum(s) == IF s = <<>> THEN 0 ELSE Head(s) + Sum(Tail(s))

RECURSIVE SumSet(_)
SumSet(S) == IF S = {} THEN 0 ELSE LET x == Min(S) IN x + SumSet(S \ {x})

RECURSIVE Sorted(_)
Sorted(S) == IF S = {} THEN <<>> ELSE LET x == Min(S) IN <<x>> \o Sorted(S \ {x})

\* int(a / b) with true division: truncation toward zero
TruncDiv(a, b) == IF a >= 0 THEN a \div b ELSE 0 - ((0 - a) \div b)

SepWidth(st) == st[1]
LeftBorderWidth(st) == st[2]
RightBorderWidth(st) == st[3]

TableWidth(width, st) ==
    IF Len(width) = 0 THEN 0
    ELSE Sum(width) + (Len(width) - 1) * SepWidth(st)
         + LeftBorderWidth(st) + RightBorderWidth(st)

PadWidths(lpw, rpw) == [i \in 1..Len(lpw) |-> lpw[i] + rpw[i]]

\* variant: the widths currently stored in columns.width are not subtracted
OffsetKeepingWidths(width, lpw, rpw, st) ==
    TableWidth(width, st) + Sum(PadWidths(lpw, rpw))

Offset(width, lpw, rpw, st) ==
    TableWidth(width, st) - Sum(width) + Sum(PadWidths(lpw, rpw))

RaisedMaxwidth(mw, width, lpw, rpw, st) ==
    Max({mw, Offset(width, lpw, rpw, st) + Len(width)})

FairShare(desired_sum, n) == TruncDiv(desired_sum, n)

\* variant: a column exactly at its fair share is not flagged
FlagBelowFairShare(maxwidths, desired_sum) ==
    [i \in 1..Len(maxwidths) |-> maxwidths[i] < FairShare(desired_sum, Len(maxwidths))]

Flag(maxwidths, desired_sum) ==
    [i \in 1..Len(maxwidths) |-> maxwidths[i] <= FairShare(desired_sum, Len(maxwidths))]

TempSum(maxwidths, flag) ==
    Sum([i \in 1..Len(maxwidths) |-> IF flag[i] THEN maxwidths[i] ELSE 1])

NewWidth(width, avail_space, actual_space) ==
    1 + TruncDiv((width - 1) * avail_space, actual_space)

\* the loop of lines 1597-1603: widths after shrinking, and the dictionary
\* shrinked_columns (new_width -> index; a later column replaces an earlier one)
Shrunk(maxwidths, flag, avail_space, actual_space) ==
    {i \in 1..Len(maxwidths) :
        ~flag[i] /\ NewWidth(maxwidths[i], avail_space, actual_space) < maxwidths[i]}

ShrinkWidths(maxwidths, flag, avail_space, actual_space) ==
    [i \in 1..Len(maxwidths) |->
        IF i \in Shrunk(maxwidths, flag, avail_space, actual_space)
        THEN NewWidth(maxwidths[i], avail_space, actual_space) ELSE maxwidths[i]]

ShrinkedColumns(maxwidths, flag, avail_space, actual_space) ==
    LET sh == Shrunk(maxwidths, flag, avail_space, actual_space)
        keys == {NewWidth(maxwidths[i], avail_space, actual_space) : i \in sh}
    IN  [k \in keys |->
            Max({i \in sh : NewWidth(maxwidths[i], avail_space, actual_space) = k})]

\* variant: the last shrunk column does not take what is left of the budget
RECURSIVE RedistributeWithoutRemainder(_, _, _, _, _, _, _)
RedistributeWithoutRemainder(width, keys, i, shrinked, extra, actual_space, budget) ==
    IF i > Len(keys) THEN width
    ELSE RedistributeWithoutRemainder(
             [width EXCEPT ![i] = @ + TruncDiv(keys[i] * extra, actual_space)],
             keys, i + 1, shrinked, extra, actual_space, budget)

\* the loop of lines 1611-1621 from position i (1-based) of the sorted keys
RECURSIVE Redistribute(_, _, _, _, _, _, _)
Redistribute(width, keys, i, shrinked, extra, actual_space, budget) ==
    IF i > Len(keys) THEN width
    ELSE LET index == shrinked[keys[i]]
             extra_width == TruncDiv(keys[i] * extra, actual_space)
             w1 == [width EXCEPT ![i] = @ + extra_width]
         IN  IF i = Len(keys)
             THEN [w1 EXCEPT ![index] = @ + (budget - Sum(w1))]
             ELSE Redistribute(w1, keys, i + 1, shrinked, extra, actual_space, budget)

CalculateWidth(maxwidths, width, lpw, rpw, mw, st) ==
    LET n == Len(maxwidths)
        offset == Offset(width, lpw, rpw, st)
        maxwidth == RaisedMaxwidth(mw, width, lpw, rpw, st)
        desired_sum == maxwidth - offset
        flag == Flag(maxwidths, desired_sum)
        temp_sum == TempSum(maxwidths, flag)
        avail_space == desired_sum - temp_sum
        actual_space == Sum(maxwidths) - temp_sum
        divzero1 == (\E i \in 1..n : ~flag[i]) /\ actual_space = 0
        w1 == ShrinkWidths(maxwidths, flag, avail_space, actual_space)
        shrinked == ShrinkedColumns(maxwidths, flag, avail_space, actual_space)
        keys == Sorted(DOMAIN shrinked)
        extra == desired_sum - Sum(w1)
        divzero2 == keys # <<>> /\ extra > 0 /\ SumSet(DOMAIN shrinked) = 0
        w2 == IF keys # <<>> /\ extra > 0
              THEN Redistribute(w1, keys, 1, shrinked, extra,
                                SumSet(DOMAIN shrinked), desired_sum)
              ELSE w1
    IN  IF n > 0 /\ divzero1
        THEN [width |-> width, maxwidth |-> maxwidth, err |-> "ZeroDivisionError"]
        ELSE IF divzero2
        THEN [width |-> w1, maxwidth |-> maxwidth, err |-> "ZeroDivisionError"]
        ELSE [width |-> [i \in 1..n |-> w2[i] + lpw[i] + rpw[i]],
              maxwidth |-> maxwidth, err |-> "ok"]

\* the maxwidth getter: its floor counts separators, borders and one
\* character per column, but no padding
GetMaxwidth(mw, n, st) ==
    Max({mw, (n - 1) * SepWidth(st) + LeftBorderWidth(st) + RightBorderWidth(st) + n})

Styles == {<<1, 1, 1>>, <<0, 0, 0>>}
PadLeftInputs(n) == {Repeat(DefaultPadding, n),
                     [i \in 1..n |-> IF i = 1 THEN 0 ELSE DefaultPadding]}

WInit ==
    /\ \E n \in 0..MaxWCols :
         /\ natural \in [1..n -> 0..MaxNatural]
         /\ colwidth = Repeat(0, n)
         /\ padleft \in PadLeftInputs(n)
         /\ padright = Repeat(DefaultPadding, n)
    /\ cfgmaxw \in 0..MaxBudget
    /\ maxw = cfgmaxw
    /\ style \in Styles
    /\ werr = "ok"
    /\ wlast = "init"

WCalculateWidth ==
    LET r == CalculateWidth(natural, colwidth, padleft, padright, maxw, style)
    IN  /\ colwidth' = r.width
        /\ maxw' = r.maxwidth
        /\ werr' = r.err
        /\ wlast' = IF wlast \in {"calc", "recalc"} THEN "recalc" ELSE "calc"
        /\ UNCHANGED <<natural, padleft, padright, cfgmaxw, style>>
        /\ UNCHANGED tvars
        /\ UNCHANGED rvars

WGetMaxwidth ==
    /\ maxw' = GetMaxwidth(maxw, Len(natural), style)
    /\ werr' = "ok"
    /\ wlast' = "maxwidth"
    /\ UNCHANGED <<natural, colwidth, padleft, padright, cfgmaxw, style>>
    /\ UNCHANGED tvars
    /\ UNCHANGED rvars

WColumnsPop(i) ==
    /\ InRange(i, Len(natural))
    /\ natural' = ListDel(natural, i)
    /\ colwidth' = ListDel(colwidth, i)
    /\ padleft' = ListDel(padleft, i)
    /\ padright' = ListDel(padright, i)
    /\ werr' = "ok"
    /\ wlast' = "columns.pop"
    /\ UNCHANGED <<maxw, cfgmaxw, style>>
    /\ UNCHANGED tvars
    /\ UNCHANGED rvars

(* ------- SpecWidth: width allocation over configured tables ------------ *)
InitWidth ==
    /\ TInit /\ WInit /\ gen = IdleGen /\ chars = DefaultChars /\ clamp = NoClamp
    /\ rowobjs = NoRowObjs /\ line = NoLine

NextWidth ==
    \/ WCalculateWidth
    \/ WGetMaxwidth
    \/ \E i \in 0..(MaxWCols - 1) : WColumnsPop(i)

SpecWidth == InitWidth /\ [][NextWidth]_vars

(* ---- SpecCopy: a table, a slice taken from it, and changes to either ---- *)
WidthInputs == {3}
SliceInputs == {<<0, MaxRows, 1>>, <<0, 1, 1>>, <<0, MaxRows, 2>>, <<1, MaxRows, 1>>}

\* a table of nrow rows, of "x" and of "w" in turn, under ncol columns
\* headed "a", as rows.append and columns.header leave it
FilledTable(nrow, ncol) ==
    [live |-> TRUE, ncol |-> ncol,
     data |-> [j \in 1..nrow |-> Repeat(IF j % 2 = 1 THEN "x" ELSE "w", ncol)],
     plain |-> FALSE, ref |-> [a \in Attrs |-> 1]]

FilledHeap(nrow, ncol) ==
    [a \in Attrs |->
        [s \in {1, 2} |->
            IF s = 2 THEN <<>>
            ELSE CASE a = "rheader" -> Repeat(None, nrow)
                   [] a = "header" -> Repeat("a", ncol)
                   [] a = "alignment" -> Repeat(DefaultAlignment, ncol)
                   [] a = "width" -> Repeat(0, ncol)
                   [] OTHER -> Repeat(DefaultPadding, ncol)]]

\* the operations of SpecCopy applied to table t, once the slice exists;
\* rows and columns are appended with as many items as the table expects
CopyRowsAppend(t) ==
    tables[2].live /\ DoRowsAppend(t, Repeat("x", NCols(W, t)), None)

CopyRowsPop(t) ==
    tables[2].live /\ DoRowsPop(t, IntKey(0 - 1))

CopyColumnsAppend(t) ==
    tables[2].live /\ DoColumnsAppend(t, Repeat("x", NRows(W, t)), "a")

CopyColumnsDelItem(t) ==
    tables[2].live /\ DoColumnsDelItem(t, IntKey(0))

CopyColumnsPop(t) ==
    tables[2].live /\ DoColumnsPop(t, IntKey(0 - 1))

CopyColumnsWidthSetItem(t) ==
    /\ tables[2].live
    /\ \E i \in 0..(MaxCols - 1), v \in WidthInputs : DoColumnsWidthSetItem(t, i, v)

CopyRowsHeaderSetItem(t) ==
    /\ tables[2].live
    /\ \E i \in 0..(MaxRows - 1), v \in RowLabels : DoRowsHeaderSetItem(t, i, v)

CopyRowsReverse(t) ==
    tables[2].live /\ DoRowsReverse(t)

CopyRowsSort(t) ==
    /\ tables[2].live
    /\ \E key \in 0..(MaxCols - 1), reverse \in BOOLEAN : DoRowsSort(t, key, reverse)

ChangeTable(t) ==
    \/ CopyRowsAppend(t)
    \/ CopyRowsPop(t)
    \/ CopyColumnsAppend(t)
    \/ CopyColumnsDelItem(t)
    \/ CopyColumnsPop(t)
    \/ CopyColumnsWidthSetItem(t)
    \/ CopyRowsHeaderSetItem(t)
    \/ CopyRowsReverse(t)
    \/ CopyRowsSort(t)

TakeSlice == \E sl \in SliceInputs : DoRowsGetSlice(sl[1], sl[2], sl[3])

ColumnSliceInputs == {<<0, MaxCols, 1>>, <<0, 1, 1>>, <<1, MaxCols, 1>>}
TakeColumnSlice ==
    \E sl \in ColumnSliceInputs : DoColumnsGetSlice(sl[1], sl[2], sl[3])

InitCopy ==
    /\ \E nrow \in 0..MaxRows, ncol \in 0..MaxCols :
         /\ (ncol = 0 => nrow = 0)
         /\ tables = [t \in TableIds |->
                        IF t = 1 THEN FilledTable(nrow, ncol) ELSE EmptyTable(FALSE)]
         /\ heap = FilledHeap(nrow, ncol)
    /\ err = "ok"
    /\ last = "init"
    /\ WIdle
    /\ gen = IdleGen /\ chars = DefaultChars /\ clamp = NoClamp
    /\ rowobjs = NoRowObjs /\ line = NoLine

NextCopy ==
    \/ \E t \in TableIds : ChangeTable(t)
    \/ TakeSlice
    \/ TakeColumnSlice

SpecCopy == InitCopy /\ [][NextCopy]_vars

(* ------------- SpecClamp: BTRowData._clamp_string ---------------------- *)
MaxText == 6
MaxClampWidth == 6

\* textwrap(item, width)[0] for a text of single-column characters without
\* whitespace: the first width characters; asked for width <= 0 the wrapper
\* gives lines of `narrow` characters, one or none
TextWrapFirst(item, width, narrow) ==
    SubSeq(item, 1, Min({Len(item), IF width > 0 THEN width ELSE narrow}))

\* _clamp_string with columns.width[index] - lpw[index] - rpw[index] = width;
\* delimiter[:width] is a Python slice, a negative width counts from the end
ClampStringAlwaysWrapping(row_item, width, delimiter, narrow) ==
    IF Len(row_item) <= width THEN row_item
    ELSE TextWrapFirst(row_item, width - Len(delimiter), narrow) \o delimiter

ClampString(row_item, width, delimiter, narrow) ==
    IF Len(row_item) <= width THEN row_item
    ELSE IF width - Len(delimiter) >= 0
    THEN TextWrapFirst(row_item, width - Len(delimiter), narrow) \o delimiter
    ELSE SubSeq(delimiter, 1, IF width >= 0 THEN Min({width, Len(delimiter)})
                              ELSE Max({0, Len(delimiter) + width}))

\* _clamp_row under WEP_ELLIPSIS or WEP_STRIP clamps one cell
DoClampString(narrow) ==
    /\ ~clamp.done
    /\ clamp' = [clamp EXCEPT !.done = TRUE,
                              !.out = ClampString(clamp.row_item, clamp.width,
                                                  clamp.delimiter, narrow)]
    /\ UNCHANGED <<tvars, wvars, gen, chars, rowobjs, line>>

\* a cell text, a printable width that paddings may push below zero, and
\* the delimiter of the ellipsis or the strip policy
InitClamp ==
    /\ TInit /\ WIdle /\ gen = IdleGen /\ chars = DefaultChars
    /\ rowobjs = NoRowObjs /\ line = NoLine
    /\ \E row_item \in SeqsUpTo({"a", "b"}, MaxText),
          width \in (0 - MaxClampWidth)..MaxClampWidth,
          delimiter \in {<<".", ".", ".">>, <<>>} :
          clamp = [NoClamp EXCEPT !.row_item = row_item, !.width = width,
                                  !.delimiter = delimiter]

NextClamp == \E narrow \in {0, 1} : DoClampString(narrow)

SpecClamp == InitClamp /\ [][NextClamp]_vars

(* ---------------------------- observations ---------------------------- *)
Rows(t) == tables[t].data
ColumnCount(t) == tables[t].ncol
RowHeader(t) == heap["rheader"][tables[t].ref["rheader"]]
Meta(t, a) == heap[a][tables[t].ref[a]]
ColumnAttrs == {"header", "alignment", "width", "padding_left", "padding_right"}
TableState(t) == <<tables[t], [a \in Attrs |-> Meta(t, a)]>>

(* ------------- SpecRender: get_string, stream, _get_string ------------- *)
MaxStream == 2
DefaultMaxwidth == 80
SerialnoHeader == "SN"
SerialnoMinWidth == 4

\* serial numbers are integers in the code; a cell holds their numeral
Serial(n) == <<"1", "2", "3", "4", "5", "6", "7", "8", "9">>[n]

\* pre_process and termwidth on the cells of this model: None is shown as
\* the empty string, the serial header has two characters, others one
TermWidth(item) ==
    IF item = None THEN 0 ELSE IF item = SerialnoHeader THEN 2 ELSE 1

\* maxwidths of _calculate_width: per column, the widest of header and cells
NaturalWidths(w, t) ==
    LET header == Get(w, t, "header")
        data   == w.T[t].data
    IN  [c \in 1..w.T[t].ncol |->
            Max({IF c <= Len(header) THEN TermWidth(header[c]) ELSE 0}
                \cup {TermWidth(data[j][c]) : j \in {j \in 1..Len(data) : c <= Len(data[j])}})]

\* `"".join(x if x is not None else '' for x in header).strip()`
HeaderShown(header) == \E c \in 1..Len(header) : header[c] \notin {None, "", " "}

\* every horizontal line character is "-", disabled ("") or blank (" ");
\* at most one of the four departs from the default
RenderStyles ==
    {st \in [{"top", "header_separator", "row_separator", "bottom"} -> {"-", "", " "}] :
        Cardinality({a \in DOMAIN st : st[a] # "-"}) <= 1}

\* the rows handed to stream(): of the table's width, one of them possibly
\* one cell longer
StreamInputs(n) ==
    SeqsUpTo({Repeat("y", n), Repeat("z", n)}, MaxStream)
        \cup {<<Repeat("y", n), Repeat("y", n + 1)>>}

\* the frame after it ran up to its next yield, with the lines it yielded
Resume(r, g, lines) ==
    /\ tables' = r.w.T
    /\ heap' = r.w.H
    /\ err' = r.err
    /\ last' = g.mode
    /\ gen' = IF r.err = "ok" THEN [g EXCEPT !.out = @ \o lines]
              ELSE [g EXCEPT !.pc = "raised"]
    /\ UNCHANGED <<chars, clamp, rowobjs, line, wvars>>

\* get_string(recalculate_width): "" for a table without rows
RGetString(serialno, recalculate_width) ==
    /\ gen.pc = "idle"
    /\ Resume(Ok(W),
              [gen EXCEPT !.pc = IF NRows(W, 1) = 0 THEN "done" ELSE "start",
                          !.mode = "get_string", !.serialno = serialno,
                          !.recalculate_width = recalculate_width,
                          !.before = TableState(1)],
              <<>>)

\* stream(rows, append) with rows of n cells: the generator is created,
\* nothing has run yet
RStream(serialno, append, n, rows) ==
    /\ gen.pc = "idle"
    /\ NCols(W, 1) \in {0, n}
    /\ Resume(Ok(W),
              [gen EXCEPT !.pc = "start", !.mode = "stream", !.serialno = serialno,
                          !.append = append, !.rows = rows,
                          !.before = TableState(1)],
              <<>>)

\* the serial column, the widths, the top border
RStart ==
    /\ gen.pc = "start"
    /\ \E r1 \in {IF gen.serialno /\ NCols(W, 1) > 0
                  THEN ColumnsInsert(W, 1, 0, [j \in 1..NRows(W, 1) |-> Serial(j)],
                                     SerialnoHeader)
                  ELSE Ok(W)} :
       \E maxwidths \in {NaturalWidths(r1.w, 1)}, width \in {Get(r1.w, 1, "width")},
          lpw \in {Get(r1.w, 1, "padding_left")}, rpw \in {Get(r1.w, 1, "padding_right")} :
       \E calc \in {CalculateWidth(maxwidths, width, lpw, rpw, DefaultMaxwidth, <<1, 1, 1>>)} :
       \E r2 \in {IF r1.err = "ok" /\ (gen.recalculate_width \/ Sum(width) = 0)
                  THEN [w |-> Put(r1.w, 1, "width", calc.width), err |-> calc.err]
                  ELSE r1} :
          LET wd == Get(r2.w, 1, "width")
              r3 == IF r2.err = "ok" /\ gen.serialno /\ r2.w.T[1].ncol > 0 /\ wd[1] = 0
                    THEN Ok(Put(r2.w, 1, "width",
                                ListSet(wd, 0, Max({SerialnoMinWidth, TermWidth(SerialnoHeader)})
                                                  + 2 * DefaultPadding)))
                    ELSE r2
          IN  Resume(r3, [gen EXCEPT !.pc = "header"],
                     IF chars["top"] # "" THEN <<"top">> ELSE <<>>)

\* the header line and its separator
RHeader ==
    /\ gen.pc = "header"
    /\ Resume(Ok(W), [gen EXCEPT !.pc = "rows"],
              IF HeaderShown(Get(W, 1, "header"))
              THEN <<"header">> \o (IF chars["header_separator"] # ""
                                    THEN <<"header_separator">> ELSE <<>>)
              ELSE <<>>)

RowLinesAlwaysSeparated(first_row_encountered) ==
    (IF chars["row_separator"] # "" THEN <<"row_separator">> ELSE <<>>) \o <<"row">>

\* the lines one row contributes: a separator unless it is the first row
RowLines(first_row_encountered) ==
    (IF first_row_encountered /\ chars["row_separator"] # ""
     THEN <<"row_separator">> ELSE <<>>) \o <<"row">>

\* one turn of `for row in self.rows`
RRow ==
    /\ gen.pc = "rows"
    /\ gen.k < NRows(W, 1)
    /\ Resume(Ok(W), [gen EXCEPT !.k = @ + 1, !.first_row_encountered = TRUE],
              RowLines(gen.first_row_encountered))

RRowsEnd ==
    /\ gen.pc = "rows"
    /\ gen.k >= NRows(W, 1)
    /\ Resume(Ok(W), [gen EXCEPT !.pc = "stream", !.prev_length = NRows(W, 1)], <<>>)

RStreamRowKeepingRows ==
    /\ gen.pc = "stream"
    /\ gen.i < Len(gen.rows)
    /\ LET i   == gen.i + 1
           row == IF gen.serialno
                  THEN ListInsert(gen.rows[i], 0, Serial(gen.prev_length + i))
                  ELSE gen.rows[i]
       IN  Resume(RowsAppend(W, 1, row, None),
                  [gen EXCEPT !.i = i, !.first_row_encountered = TRUE],
                  RowLines(gen.first_row_encountered))

\* one turn of `for i, row in enumerate(rows, start=1)`
RStreamRow ==
    /\ gen.pc = "stream"
    /\ gen.i < Len(gen.rows)
    /\ LET i   == gen.i + 1
           row == IF gen.serialno
                  THEN ListInsert(gen.rows[i], 0, Serial(gen.prev_length + i))
                  ELSE gen.rows[i]
           r1  == RowsAppend(W, 1, row, None)
           r2  == IF r1.err = "ok" /\ ~gen.append THEN RowsPop(r1.w, 1, IntKey(0 - 1))
                  ELSE r1
       IN  Resume(r2, [gen EXCEPT !.i = i, !.first_row_encountered = TRUE],
                  RowLines(gen.first_row_encountered))

\* the bottom border
RBottom ==
    /\ gen.pc = "stream"
    /\ gen.i >= Len(gen.rows)
    /\ Resume(Ok(W), [gen EXCEPT !.pc = "end"],
              IF chars["bottom"] # "" THEN <<"bottom">> ELSE <<>>)

REndKeepingSerial ==
    /\ gen.pc = "end"
    /\ Resume(Ok(W), [gen EXCEPT !.pc = "done"], <<>>)

\* the serial column is taken out again; the generator is exhausted
REnd ==
    /\ gen.pc = "end"
    /\ Resume(IF gen.serialno /\ NCols(W, 1) > 0 THEN ColumnsPop(W, 1, IntKey(0)) ELSE Ok(W),
              [gen EXCEPT !.pc = "done"], <<>>)

\* the consumer of stream() stops iterating (break, close, garbage
\* collection) while the generator is suspended at a yield: GeneratorExit is
\* raised there, no finally clause catches it, and none of the remaining
\* statements of _get_string runs; one generator per run is abandoned, of a
\* table with serialno enabled
RAbandon ==
    /\ gen.mode = "stream"
    /\ gen.serialno
    /\ ~gen.abandoned
    /\ gen.pc \in {"header", "rows", "stream", "end"}
    /\ gen.out # <<>>
    /\ tables' = tables
    /\ heap' = heap
    /\ err' = "ok"
    /\ last' = "abandon"
    /\ gen' = [IdleGen EXCEPT !.abandoned = TRUE]
    /\ UNCHANGED <<chars, clamp, rowobjs, line, wvars>>

\* a table of nrow rows and ncol columns with its hl headers all h, in a
\* drawn style; a table without columns has no rows, and any headers
InitRender ==
    /\ \E nrow \in 0..MaxRows, ncol \in 0..MaxCols, hl \in 0..MaxCols, h \in ColHeaders :
          /\ ncol = 0 => nrow = 0
          /\ ncol > 0 => hl = ncol
          /\ tables = [t \in TableIds |->
                          IF t = 1 THEN FilledTable(nrow, ncol) ELSE EmptyTable(FALSE)]
          /\ heap = [FilledHeap(nrow, ncol) EXCEPT !["header"][1] = Repeat(h, hl)]
    /\ err = "ok"
    /\ last = "init"
    /\ WIdle
    /\ gen = IdleGen
    /\ chars \in RenderStyles
    /\ clamp = NoClamp
    /\ rowobjs = NoRowObjs /\ line = NoLine

NextRender ==
    \/ \E serialno \in BOOLEAN, recalculate_width \in BOOLEAN :
          RGetString(serialno, recalculate_width)
    \/ \E serialno \in BOOLEAN, append \in BOOLEAN :
          \E n \in 1..MaxCols : \E rows \in StreamInputs(n) :
             RStream(serialno, append, n, rows)
    \/ RStart
    \/ RHeader
    \/ RRow
    \/ RRowsEnd
    \/ RStreamRow
    \/ RBottom
    \/ REnd
    \/ \E key \in SUBSET {"x", "y", "z"} : DoRowsFilter(key)

SpecRender == InitRender /\ [][NextRender]_vars

(* ----- SpecAbandon: renders whose stream() generator may be dropped ----- *)
NextAbandon == NextRender \/ RAbandon

SpecAbandon == InitRender /\ [][NextAbandon]_vars

(* -- SpecBackref: the row objects of a table and of a table made from it -- *)
\* rowobjs.ids[t] names the row objects t._data holds, rowobjs.table[id] is
\* the _table of row object id, rowobjs.rows[t] and rowobjs.columns[t] are
\* the _table of t.rows and of t.columns
Range(s) == {s[j] : j \in 1..Len(s)}

\* __copy__: every attribute is copied shallowly, so the new _data holds the
\* row objects of the original, and the loop then sets _table on them
CopyRowObjs(ro, src, dst) ==
    [ro EXCEPT !.ids[dst] = ro.ids[src],
               !.rows[dst] = dst,
               !.columns[dst] = dst,
               !.table = [id \in DOMAIN ro.table |->
                             IF id \in Range(ro.ids[src]) THEN dst ELSE ro.table[id]]]

\* a new _data for table t, then n times rows.append: BTRowData(self._table, row)
NewRowObjs(ro, t, n) ==
    [ro EXCEPT !.ids[t] = [j \in 1..n |-> MaxRows + j],
               !.table = [id \in 1..(MaxRows + n) |->
                             IF id > MaxRows THEN ro.rows[t]
                             ELSE IF id \in DOMAIN ro.table THEN ro.table[id] ELSE t]]

\* the table an operation returned as table 2, and the row objects after it
Returned(r, name, ro) ==
    /\ tables' = r.w.T
    /\ heap' = r.w.H
    /\ err' = r.err
    /\ last' = name
    /\ rowobjs' = ro
    /\ UNCHANGED <<gen, chars, clamp, line, wvars>>

\* new = table.copy()
BCopy ==
    /\ ~tables[2].live
    /\ Returned(Ok(Copy(W, 1, 2)), "copy", CopyRowObjs(rowobjs, 1, 2))

\* new = table.rows[start:stop:step]
BRowsGetSlice(start, stop, step) ==
    \E r \in {RowsGetSlice(W, 1, 2, start, stop, step)} :
        /\ ~tables[2].live
        /\ r.err = "ok"
        /\ Returned(r, "rows[slice]",
                    NewRowObjs(CopyRowObjs(rowobjs, 1, 2), 2, NRows(r.w, 2)))

\* new = table.rows.filter(key)
BRowsFilter(key) ==
    \E r \in {RowsFilter(W, 1, 2, key)} :
        /\ ~tables[2].live
        /\ r.err = "ok"
        /\ Returned(r, "rows.filter",
                    NewRowObjs(CopyRowObjs(rowobjs, 1, 2), 2, NRows(r.w, 2)))

\* a table of nrow rows, each row object referring to the table
InitBackref ==
    /\ \E nrow \in 0..MaxRows, ncol \in 0..MaxCols, rh \in RowHeaders, h \in ColHeaders :
          /\ ncol = 0 => nrow = 0
          /\ tables = [t \in TableIds |->
                          IF t = 1 THEN FilledTable(nrow, ncol) ELSE EmptyTable(FALSE)]
          /\ heap = [FilledHeap(nrow, ncol) EXCEPT !["header"][1] = Repeat(h, ncol),
                                                   !["rheader"][1] = Repeat(rh, nrow)]
          /\ rowobjs = [NoRowObjs EXCEPT !.ids[1] = [j \in 1..nrow |-> j],
                                         !.table = Repeat(1, nrow)]
    /\ err = "ok"
    /\ last = "init"
    /\ WIdle
    /\ gen = IdleGen /\ chars = DefaultChars /\ clamp = NoClamp /\ line = NoLine

NextBackref ==
    \/ BCopy
    \/ \E sl \in SliceInputs : BRowsGetSlice(sl[1], sl[2], sl[3])
    \/ \E key \in SUBSET {"x", "w", "y"} : BRowsFilter(key)

SpecBackref == InitBackref /\ [][NextBackref]_vars

(* ------ SpecLine: _get_horizontal_line and BTRowData.__str__ ----------- *)
\* texts are sequences of characters of display width 1, so termwidth and
\* len are both Len
MaxLineCols == 3

\* str.isspace(): at least one character, and all of them whitespace
IsSpace(s) == s # <<>> /\ \A j \in 1..Len(s) : s[j] = " "

\* list(char * (int(width / termwidth(char)) + 1))[:width], and the line of
\* spaces the ZeroDivisionError handler builds for a character of no width
FillLine(char, width) ==
    IF Len(char) = 0 THEN Repeat(" ", width)
    ELSE [j \in 1..width |-> char[((j - 1) % Len(char)) + 1]]

\* how many characters of an intersection are written over a border or
\* separator: none when that is absent, or whitespace under a visible
\* intersection
Written(border_char, intersect) ==
    IF Len(border_char) > 0 /\ ~(IsSpace(border_char) /\ ~IsSpace(intersect))
    THEN Min({Len(border_char), Len(intersect)}) ELSE 0

\* variant: the separators passed on the way are not counted
MidIndexWithoutSeparators(width, lb, sep, i) ==
    Len(lb) + Sum(SubSeq(width, 1, i))

\* `index` when the intersection behind column i (1-based) is written
MidIndex(width, lb, sep, i) ==
    Len(lb) + Sum(SubSeq(width, 1, i)) + (i - 1) * Len(sep)

\* the assignments to line[...] in the order of the code: left, right, mid;
\* a later one wins
GetHorizontalLine(width, lb, sep, rb, char, il, im, ir) ==
    LET total == TableWidth(width, <<Len(sep), Len(lb), Len(rb)>>)
        fill  == FillLine(char, total)
        left  == Written(lb, il)
        right == Written(rb, ir)
        mid   == Written(sep, im)
        at(j) == {i \in 1..(Len(width) - 1) :
                     j > MidIndex(width, lb, sep, i) /\ j <= MidIndex(width, lb, sep, i) + mid}
    IN  IF total = 0 THEN <<>>
        ELSE IF IsSpace(char) THEN fill
        ELSE [j \in 1..total |->
                 IF at(j) # {} THEN im[j - MidIndex(width, lb, sep, Max(at(j)))]
                 ELSE IF j > total - right THEN ir[Len(ir) - (total - j)]
                 ELSE IF j <= left THEN il[j]
                 ELSE fill[j]]

\* _clamp_row for one cell: the text under the width exceed policy (of a
\* wrapped text, its first line)
ClampCell(row_item, width, policy, narrow) ==
    IF policy = "wrap" THEN TextWrapFirst(row_item, width, narrow)
    ELSE ClampString(row_item, width,
                     IF policy = "strip" THEN <<>> ELSE <<".", ".", ".">>, narrow)

\* the alignment of lines 176-186; " " * pad_len is empty for pad_len <= 0
AlignCell(cell, width, align) ==
    LET pad_len == width - Len(cell)
    IN  IF align = "<" THEN cell \o Repeat(" ", pad_len)
        ELSE IF align = ">" THEN Repeat(" ", pad_len) \o cell
        ELSE Repeat(" ", pad_len \div 2) \o cell \o Repeat(" ", pad_len - (pad_len \div 2))

\* sep.join(cells)
RECURSIVE Join(_, _)
Join(cells, sep) ==
    IF cells = <<>> THEN <<>>
    ELSE IF Len(cells) = 1 THEN cells[1]
    ELSE cells[1] \o sep \o Join(Tail(cells), sep)

\* the first line of str(row) in a table whose columns all have the default
\* padding and the same alignment
RowStr(row, width, lb, sep, rb, align, policy, narrow) ==
    lb \o Join([i \in 1..Len(row) |->
                   AlignCell(Repeat(" ", DefaultPadding)
                               \o ClampCell(row[i], width[i] - 2 * DefaultPadding, policy, narrow)
                               \o Repeat(" ", DefaultPadding),
                             width[i], align)], sep) \o rb

\* widths of columns with three and with four printable characters
LineWidths == {3 + 2 * DefaultPadding, 4 + 2 * DefaultPadding}
BorderChars == {<<>>, <<" ">>, <<"|">>}
Intersections == {<<>>, <<" ">>, <<"+">>}
LineChars == {<<>>, <<" ">>, <<"-">>, <<"=", "-">>}
\* a cell is empty or longer than every printable width
CellTexts == {<<>>, <<"a", "a", "a", "a", "a">>}

\* a table with columns.width set, and its border and separator characters
InitLine ==
    /\ TInit /\ WIdle /\ gen = IdleGen /\ chars = DefaultChars /\ clamp = NoClamp
    /\ rowobjs = NoRowObjs
    /\ \E n \in 1..MaxLineCols : \E width \in [1..n -> LineWidths] :
       \E lb \in BorderChars, sep \in BorderChars, rb \in BorderChars :
          line = [NoLine EXCEPT !.width = width,
                                !.border = [lb |-> lb, sep |-> sep, rb |-> rb]]

LGetHorizontalLine(char, il, im, ir) ==
    /\ line.op = "none"
    /\ line' = [line EXCEPT
                   !.op = "_get_horizontal_line",
                   !.args = [char |-> char, il |-> il, im |-> im, ir |-> ir],
                   !.out = GetHorizontalLine(line.width, line.border.lb, line.border.sep,
                                             line.border.rb, char, il, im, ir)]
    /\ UNCHANGED <<tvars, wvars, gen, chars, clamp, rowobjs>>

LRowStr(row, align, policy, narrow) ==
    /\ line.op = "none"
    /\ Len(row) = Len(line.width)
    /\ line' = [line EXCEPT
                   !.op = "__str__",
                   !.args = [row |-> row, align |-> align, policy |-> policy],
                   !.out = RowStr(row, line.width, line.border.lb, line.border.sep,
                                  line.border.rb, align, policy, narrow)]
    /\ UNCHANGED <<tvars, wvars, gen, chars, clamp, rowobjs>>

NextLine ==
    \/ \E char \in LineChars, il \in Intersections, im \in Intersections,
          ir \in Intersections : LGetHorizontalLine(char, il, im, ir)
    \/ \E row \in SeqsUpTo(CellTexts, MaxLineCols), align \in {"<", ">", "^"},
          policy \in {"strip", "ellipsis", "wrap"}, narrow \in {0, 1} :
          LRowStr(row, align, policy, narrow)

SpecLine == InitLine /\ [][NextLine]_vars

(* ------------------------------- claims -------------------------------- *)
\* C1: after any sequence of row and column operations, failed ones
\* included, every row has exactly len(table.columns) cells.
C1_RowsHaveColumnCountCells ==
    \A t \in Live : \A j \in 1..Len(Rows(t)) : Len(Rows(t)[j]) = ColumnCount(t)

\* C2: after any sequence of row and column operations the header,
\* alignment, width, padding_left and padding_right lists all have
\* len(table.columns) entries.
C2_MetadataHasColumnCountEntries ==
    \A t \in Live : \A a \in ColumnAttrs : Len(Meta(t, a)) = ColumnCount(t)

\* C3: columns.insert / columns.append of a column with fewer items than the
\* table has rows raises ValueError and leaves rows, column count and column
\* metadata exactly as they were, for every insert position 0..columnCount.
C3_ShortColumnInsertRollsBack ==
    [][\A index \in 0..MaxCols, column \in ColumnInputs, h \in ColLabels :
          ( /\ Len(column) < Len(Rows(1))
            /\ \/ DoColumnsInsert(1, index, column, h)
               \/ DoColumnsAppend(1, column, h) )
          => (err' = "ValueError" /\ TableState(1)' = TableState(1))]_vars

\* C8: del columns[key] or columns.pop(key) that removes the last remaining
\* column leaves the table with 0 rows and an empty row-header list.
C8_LastColumnRemovalClearsRows ==
    [][\A t \in TableIds, key \in ColKeys :
          ( /\ ColumnCount(t) = 1
            /\ \/ DoColumnsDelItem(t, key)
               \/ DoColumnsPop(t, key)
            /\ err' = "ok" )
          => (Rows(t)' = <<>> /\ RowHeader(t)' = <<>>)]_vars

\* C9: in every reachable state, len(table.columns) = 0 implies
\* len(table.rows) = 0.
C9_NoColumnsNoRows ==
    \A t \in Live : ColumnCount(t) = 0 => Len(Rows(t)) = 0

Calculated == wlast \in {"calc", "recalc"}
Printable(i) == colwidth[i] - padleft[i] - padright[i]
MinimumFeasibleWidth == Offset(colwidth, padleft, padright, style) + Len(natural)
DesiredSum == maxw - Offset(colwidth, padleft, padright, style)

\* C4: after _calculate_width (on a table with at least one column),
\* table.width equals sum(columns.width) + (n-1)*separator + left border +
\* right border, and table.width <= max(configured maxwidth, minimum
\* feasible width).
C4_WidthWithinConfiguredBudget ==
    (Calculated /\ Len(natural) >= 1) =>
        /\ TableWidth(colwidth, style)
             = Sum(colwidth) + (Len(natural) - 1) * SepWidth(style)
               + LeftBorderWidth(style) + RightBorderWidth(style)
        /\ TableWidth(colwidth, style) <= Max({cfgmaxw, MinimumFeasibleWidth})

\* C5: _calculate_width called again right after _calculate_width, with
\* nothing changed in between, leaves columns.width as the first call left it.
C5_CalculateWidthIdempotent ==
    [][(Calculated /\ WCalculateWidth) => colwidth' = colwidth]_vars

C5_Witness ==
    /\ wlast = "recalc"
    /\ \E i \in 1..Len(natural) : Printable(i) < natural[i]
    /\ \E i \in 1..Len(natural) : Printable(i) = natural[i]

\* C6: for every configured maxwidth (0 and values below the minimum
\* feasible width included) and all natural widths, _calculate_width does
\* not raise, and every column of natural width >= 1 gets a printable width
\* >= 1.
C6_NoRaiseAndOneCharacter ==
    /\ werr = "ok"
    /\ Calculated =>
         \A i \in 1..Len(natural) : natural[i] >= 1 => Printable(i) >= 1

C6_Witness ==
    /\ Calculated
    /\ werr = "ok"
    /\ cfgmaxw = 0
    /\ Len(natural) = MaxWCols
    /\ \A i \in 1..Len(natural) : natural[i] = MaxNatural /\ Printable(i) = 1

\* C7: after _calculate_width, every column whose natural width W_i is
\* <= floor(desiredSum / n) has printable width exactly W_i (leftover space
\* goes to shrunk columns only).
C7_FairShareColumnsKeepNaturalWidth ==
    Calculated =>
        \A i \in 1..Len(natural) :
            natural[i] <= DesiredSum \div Len(natural) => Printable(i) = natural[i]

\* C10: rows[start:stop:step] returns a new table with exactly the selected
\* rows, the column count and the column metadata of the original; taking the
\* slice leaves the original's rows, row headers and column metadata as they
\* were, and a later change to either table leaves the other as it was.
C10_SliceIsIndependentTable ==
    [][ /\ (TakeSlice /\ err' = "ok") =>
             /\ TableState(1)' = TableState(1)
             /\ \E sl \in SliceInputs :
                  Rows(2)' = Pick(Rows(1), SliceIndices(sl[1], sl[2], sl[3], Len(Rows(1))), 1)
             /\ ColumnCount(2)' = ColumnCount(1)
             /\ \A a \in ColumnAttrs : Meta(2, a)' = Meta(1, a)
        /\ \A t \in TableIds :
             (Other(t) \in Live /\ ChangeTable(t)) =>
                 TableState(Other(t))' = TableState(Other(t)) ]_vars

\* C11: columns[start:stop:step] returns a new table whose header, alignment,
\* padding and width lists are the selected slice of the original's and whose
\* rows are the original rows restricted to the selected columns; the
\* original table is left as it was.
C11_ColumnSliceIsNewTable ==
    [][\A sl \in ColumnSliceInputs :
          DoColumnsGetSlice(sl[1], sl[2], sl[3]) =>
              LET idx == SliceIndices(sl[1], sl[2], sl[3], ColumnCount(1))
              IN  /\ err' = "ok"
                  /\ tables'[2].live
                  /\ \A a \in ColumnAttrs : Meta(2, a)' = Pick(Meta(1, a), idx, 1)
                  /\ Rows(2)' = [j \in 1..Len(Rows(1)) |-> Pick(Rows(1)[j], idx, 1)]
                  /\ TableState(1)' = TableState(1)]_vars

\* C12: headers assigned with columns.header while the table has zero
\* columns are still the table's headers after the first row is appended
\* (so that a render shows the header line and the header separator).
C12_HeadersSurviveFirstRow ==
    [][\A row \in RowInputs :
          ( /\ ColumnCount(1) = 0
            /\ Rows(1) = <<>>
            /\ Meta(1, "header") # <<>>
            /\ Len(row) = Len(Meta(1, "header"))
            /\ last = "columns.header"
            /\ DoRowsAppend(1, row, None) )
          => (err' = "ok" /\ Meta(1, "header")' = Meta(1, "header"))]_vars

\* the table's columns and the rows it had are what they were when the
\* render was called (gen.before)
ColumnsAndRowsRestored ==
    /\ ColumnCount(1) = gen.before[1].ncol
    /\ \A a \in {"header", "alignment", "padding_left", "padding_right"} :
          Meta(1, a) = gen.before[2][a]
    /\ Len(Rows(1)) >= Len(gen.before[1].data)
    /\ \A j \in 1..Len(gen.before[1].data) : Rows(1)[j] = gen.before[1].data[j]

C14_StreamKeepsOrAppendsRows ==
    gen.mode = "stream" =>
        /\ (gen.pc = "done" /\ ~gen.append) => Rows(1) = gen.before[1].data
        /\ (gen.pc = "done" /\ gen.append) => Rows(1) = gen.before[1].data \o gen.rows
        /\ (~gen.append /\ gen.pc \in {"header", "rows", "stream", "end", "done"})
              => Len(Rows(1)) = Len(gen.before[1].data)

C14_Witness ==
    /\ gen.mode = "stream" /\ gen.pc = "done" /\ gen.append /\ gen.serialno
    /\ gen.before[1].data # <<>> /\ Len(gen.rows) = MaxStream
    /\ gen.rows[1] # gen.rows[MaxStream]
    /\ Rows(1) = gen.before[1].data \o gen.rows

\* a render of n rows as a sequence of line kinds: the top border, the
\* header line with its separator, the rows with one separator between
\* successive rows, the bottom border, each present as the flag says
LineSequence(top, header, header_separator, row_separator, bottom, n) ==
    (IF top THEN <<"top">> ELSE <<>>)
    \o (IF header THEN <<"header">> ELSE <<>>)
    \o (IF header /\ header_separator THEN <<"header_separator">> ELSE <<>>)
    \o (IF n = 0 THEN <<>>
        ELSE IF row_separator
        THEN [j \in 1..(2 * n - 1) |-> IF j % 2 = 0 THEN "row_separator" ELSE "row"]
        ELSE Repeat("row", n))
    \o (IF bottom THEN <<"bottom">> ELSE <<>>)

\* the headers shown by the running render are those of the table at the
\* call, and the serial header when a serial column is inserted
HeadersNonBlank ==
    \/ HeaderShown(gen.before[2]["header"])
    \/ gen.serialno /\ gen.before[1].ncol > 0

\* C15 as stated: the lines of one render are the top border (only if the
\* top glyph is non-blank), the header line followed by the header separator
\* (only if the joined headers are non-blank), the rows with exactly one row
\* separator between successive rows, and the bottom border as the last line.
C15_Original_LineSequence ==
    (gen.pc = "done" /\ gen.out # <<>>) =>
        gen.out = LineSequence(chars["top"] \notin {"", " "}, HeadersNonBlank, TRUE, TRUE, TRUE,
                               Len(gen.before[1].data) + Len(gen.rows))

\* C15: the lines of one render are, in this order, the top border, the
\* header line followed by the header separator (both only if the joined
\* headers are non-blank), the rows with exactly one row separator between
\* successive rows and none before the first or after the last row (existing
\* and streamed rows together), and the bottom border; each of the four
\* horizontal lines is present exactly when its character is not the empty
\* string, and get_string() on a table without rows emits no line at all.
C15_LineSequence ==
    gen.pc = "done" =>
        IF gen.mode = "get_string" /\ gen.before[1].data = <<>>
        THEN gen.out = <<>>
        ELSE gen.out = LineSequence(chars["top"] # "", HeadersNonBlank,
                                    chars["header_separator"] # "",
                                    chars["row_separator"] # "", chars["bottom"] # "",
                                    Len(gen.before[1].data) + Len(gen.rows))

C15_Witness ==
    /\ gen.pc = "done" /\ gen.mode = "stream" /\ gen.i > 0 /\ gen.k > 0
    /\ HeadersNonBlank /\ chars = DefaultChars
    /\ Len(gen.out) = 2 * (gen.k + gen.i) + 3

\* the cell text was too wide for its column and has been clamped under
\* the ellipsis policy
ClampedWithEllipsis ==
    /\ clamp.done
    /\ clamp.delimiter = <<".", ".", ".">>
    /\ Len(clamp.row_item) > clamp.width

\* the clamped text fills the column, ends in "..." and starts as the text
EndsInEllipsis ==
    /\ Len(clamp.out) = clamp.width
    /\ SubSeq(clamp.out, clamp.width - 2, clamp.width) = <<".", ".", ".">>
    /\ SubSeq(clamp.out, 1, clamp.width - 3) = SubSeq(clamp.row_item, 1, clamp.width - 3)

\* C16 as stated: under the ellipsis policy a cell text wider than the
\* printable width w, w >= 3, is clamped to exactly w columns, ends in "..."
\* and begins with the first w - 3 columns of the text.
C16_Original_EllipsisFillsWidth ==
    (ClampedWithEllipsis /\ clamp.width >= 3) => EndsInEllipsis

\* C16 for w >= 4: under the ellipsis policy a cell text wider than the
\* printable width w is clamped to exactly w columns, ends in "..." and
\* begins with the first w - 3 columns of the text.
C16_EllipsisFillsWidth ==
    (ClampedWithEllipsis /\ clamp.width >= 4) => EndsInEllipsis

C16_Witness ==
    /\ ClampedWithEllipsis /\ clamp.width = 5
    /\ clamp.out = <<"a", "b", ".", ".", ".">>

\* C17 as stated: under the ellipsis policy with printable width w < 3,
\* w <= 0 included, an over-long cell text is replaced by the ellipsis marker
\* truncated to w characters, so it never has more than max(w, 0) columns.
C17_Original_NarrowEllipsis ==
    (ClampedWithEllipsis /\ clamp.width < 3)
        => /\ clamp.out = SubSeq(<<".", ".", ".">>, 1, Max({clamp.width, 0}))
           /\ Len(clamp.out) <= Max({clamp.width, 0})

\* C17 for 0 <= w < 3: under the ellipsis policy an over-long cell text is
\* replaced by the first w characters of the ellipsis marker.
C17_NarrowEllipsis ==
    (ClampedWithEllipsis /\ clamp.width < 3 /\ clamp.width >= 0)
        => clamp.out = SubSeq(<<".", ".", ".">>, 1, clamp.width)

C17_Witness ==
    ClampedWithEllipsis /\ clamp.width = 2 /\ clamp.out = <<".", ".">>

\* C18: rows.filter(pred) returns a new table with exactly the rows for
\* which pred is true, in their original order, with the column count,
\* headers, alignment and padding of the original; the original table's rows
\* and row headers are unchanged by the call.
C18_FilterReturnsMatchingRows ==
    [][\A key \in SUBSET {"x", "y", "z"} :
          DoRowsFilter(key) =>
              /\ err' = "ok" /\ tables'[2].live
              /\ Rows(2)' = SelectSeq(Rows(1), LAMBDA row : row[1] \in key)
              /\ ColumnCount(2)' = ColumnCount(1)
              /\ \A a \in {"header", "alignment", "padding_left", "padding_right"} :
                    Meta(2, a)' = Meta(1, a)
              /\ Rows(1)' = Rows(1)
              /\ RowHeader(1)' = RowHeader(1)]_vars

C18_Witness ==
    /\ last = "rows.filter" /\ err = "ok" /\ tables[2].live
    /\ Len(Rows(1)) > MaxRows /\ Len(Rows(2)) = 2 /\ Rows(2)[1] # Rows(2)[2]

\* C19: columns.update(key, value) / columns[key] = value with a value whose
\* length differs from the number of rows raises an error and leaves every
\* row unchanged (stated for a table that has rows and a value that has items).
C19_UpdateRejectsWrongLength ==
    [][\A key \in ColKeys, value \in ColumnInputs :
          ( /\ Rows(1) # <<>> /\ value # <<>> /\ Len(value) # Len(Rows(1))
            /\ DoColumnsUpdate(1, key, value) )
              => (err' # "ok" /\ Rows(1)' = Rows(1))]_vars

\* C20: rows.append(row, header=h) stores h as the row header label of the
\* appended row, and leaves the table exactly as
\* rows.insert(len(rows), row, header=h) would.
C20_AppendStoresHeader ==
    [][\A row \in RowInputs, h \in RowLabels :
          DoRowsAppend(1, row, h) =>
              LET r == RowsInsert(W, 1, NRows(W, 1), row, h)
              IN  /\ tables' = r.w.T /\ heap' = r.w.H /\ err' = r.err
                  /\ err' = "ok" => RowHeader(1)'[Len(RowHeader(1)')] = h]_vars

\* C26: len(rows.header) == len(table.rows) is kept by rows.insert,
\* rows.append, rows.pop, del rows[key], rows.clear and by a column delete or
\* pop, also when the operation raises an error.
C26_RowHeaderPerRow ==
    [][( /\ Len(RowHeader(1)) = Len(Rows(1))
         /\ last' \in {"rows.insert", "rows.append", "rows.pop", "rows.__delitem__",
                       "rows.clear", "columns.__delitem__", "columns.pop"} )
       => Len(RowHeader(1))' = Len(Rows(1))']_vars

\* the columns the loop of lines 1597-1603 shrinks and the widths it gives
\* them, for the table and the budget of the current state
ShrunkNow ==
    LET flag == Flag(natural, DesiredSum)
        temp_sum == TempSum(natural, flag)
    IN  Shrunk(natural, flag, DesiredSum - temp_sum, Sum(natural) - temp_sum)

ShrunkWidthNow(i) ==
    LET flag == Flag(natural, DesiredSum)
        temp_sum == TempSum(natural, flag)
    IN  NewWidth(natural[i], DesiredSum - temp_sum, Sum(natural) - temp_sum)

\* C23: whenever _calculate_width shrinks at least one column, the final
\* widths use the whole budget: sum(columns.width) + separators + borders
\* equals the effective maximum width, also when two shrunk columns have the
\* same shrunk width.
C23_ShrinkingUsesWholeBudget ==
    (Calculated /\ werr = "ok" /\ ShrunkNow # {}) =>
        Sum(colwidth) + (Len(natural) - 1) * SepWidth(style)
          + LeftBorderWidth(style) + RightBorderWidth(style) = maxw

C23_Witness ==
    /\ Calculated
    /\ werr = "ok"
    /\ \E i, j \in ShrunkNow : i # j /\ ShrunkWidthNow(i) = ShrunkWidthNow(j)
    /\ \E i, j \in ShrunkNow : ShrunkWidthNow(i) # ShrunkWidthNow(j)
    /\ \E i \in ShrunkNow : Printable(i) > ShrunkWidthNow(i)

\* C27: after _calculate_width no column's printable width (width_i minus
\* its paddings) exceeds its natural width W_i, for shrunk and unshrunk
\* columns alike.
C27_PrintableWithinNatural ==
    (Calculated /\ werr = "ok") =>
        \A i \in 1..Len(natural) : Printable(i) <= natural[i]

\* C24: each width allocation uses the budget max(configured maxwidth,
\* minimum feasible width of the current columns): after an allocation that
\* expanded the budget, removing columns and allocating again gives a table no
\* wider than that maximum, and neither reading maxwidth nor an allocation
\* changes the configured value.
C24_BudgetFromConfiguredMaxwidth ==
    [][ /\ (WCalculateWidth /\ Len(natural) >= 1 /\ werr' = "ok") =>
             TableWidth(colwidth, style)' <= Max({cfgmaxw, MinimumFeasibleWidth})
        /\ (WCalculateWidth \/ WGetMaxwidth) => maxw' = cfgmaxw ]_vars

\* C29: rows.sort and rows.reverse keep every row paired with its row header
\* label: the rows and the labels are rearranged by one and the same
\* permutation.
C29_SortAndReverseKeepRowHeaders ==
    [][ \A t \in Live :
          ( /\ last' \in {"rows.sort", "rows.reverse"}
            /\ err' = "ok"
            /\ Len(RowHeader(t)) = Len(Rows(t)) ) =>
              \E p \in [1..Len(Rows(t)) -> 1..Len(Rows(t))] :
                  /\ \A i, j \in DOMAIN p : p[i] = p[j] => i = j
                  /\ Rows(t)' = [j \in DOMAIN p |-> Rows(t)[p[j]]]
                  /\ RowHeader(t)' = [j \in DOMAIN p |-> RowHeader(t)[p[j]]] ]_vars

\* C30: with serialno enabled, the temporary serial-number column is not
\* left in the table when a stream() generator is abandoned before it is
\* exhausted: the column count is the count before stream(), and a following
\* stream() or get_string() does not add a second serial column.
C30_AbandonedStreamLeavesNoSerialColumn ==
    [][ /\ RAbandon => ColumnCount(1)' = gen.before[1].ncol
        /\ Cardinality({c \in 1..Len(Meta(1, "header")') :
                           Meta(1, "header")'[c] = SerialnoHeader}) <= 1 ]_vars

\* C25: after table.copy(), rows.filter() or rows[slice], every row object
\* held by the original table still has the original table as its
\* back-reference, the rows and columns collections of each table refer to
\* their own table, and no row object or metadata array is shared between the
\* two tables.
C25_CopiesShareNothing ==
    (tables[2].live /\ last \in {"copy", "rows[slice]", "rows.filter"}) =>
        /\ \A id \in Range(rowobjs.ids[1]) : rowobjs.table[id] = 1
        /\ \A t \in TableIds : rowobjs.rows[t] = t /\ rowobjs.columns[t] = t
        /\ Range(rowobjs.ids[1]) \cap Range(rowobjs.ids[2]) = {}
        /\ \A a \in Attrs : tables[1].ref[a] # tables[2].ref[a]

\* a text that is empty or all whitespace
Blank(s) == s = <<>> \/ IsSpace(s)

LineWidth == TableWidth(line.width, <<Len(line.border.sep), Len(line.border.lb), Len(line.border.rb)>>)

\* the line drawn is the fill with the left intersection over the left
\* border, the right one over the right border and the mid one at offset
\* width(left border) + widths of columns 0..i + i * width(separator) for
\* each i < n-1, each cut to its slot and each only where Overwrites allows
LineAsStated(Overwrites(_, _)) ==
    LET b == line.border
        a == line.args
        n == Len(line.width)
        offset(i) == Len(b.lb) + Sum(SubSeq(line.width, 1, i + 1)) + i * Len(b.sep)
        slot(border_char, intersect) ==
            IF Overwrites(border_char, intersect)
            THEN Min({Len(border_char), Len(intersect)}) ELSE 0
        mids(j) == {i \in 0..(n - 2) : j > offset(i) /\ j <= offset(i) + slot(b.sep, a.im)}
    IN  /\ Len(line.out) = LineWidth
        /\ \A j \in 1..Len(line.out) :
              line.out[j] =
                 IF mids(j) # {} THEN a.im[j - offset(Max(mids(j)))]
                 ELSE IF j > LineWidth - slot(b.rb, a.ir) THEN a.ir[Len(a.ir) - (LineWidth - j)]
                 ELSE IF j <= slot(b.lb, a.il) THEN a.il[j]
                 ELSE a.char[((j - 1) % Len(a.char)) + 1]

VisibleLineDrawn ==
    line.op = "_get_horizontal_line" /\ ~Blank(line.args.char)

UnlessBothBlank(border_char, intersect) == ~(Blank(border_char) /\ Blank(intersect))

UnlessHiddenBorder(border_char, intersect) == ~(IsSpace(border_char) /\ ~IsSpace(intersect))

\* C21 (as stated): in a horizontal line with a non-blank fill character,
\* the left edge takes the left intersection except when left_border_char and
\* the intersection are both blank; the same for the right edge, and for
\* every column boundary at offset width(left border) + widths of columns
\* 0..i + i * width(separator), i < n-1, and at no other position.
C21_Original_IntersectionsUnlessBothBlank ==
    VisibleLineDrawn => LineAsStated(UnlessBothBlank)

\* C21 (amended): the same positions, but an intersection is written over
\* its border or separator except when that character is whitespace and the
\* intersection is not: a whitespace intersection is written, a visible one
\* is not drawn on a whitespace border.
C21_IntersectionsUnlessHiddenBorder ==
    VisibleLineDrawn => LineAsStated(UnlessHiddenBorder)

C21_Witness ==
    /\ VisibleLineDrawn
    /\ Len(line.width) = MaxLineCols
    /\ line.width[1] # line.width[2]
    /\ line.border = [lb |-> <<" ">>, sep |-> <<"|">>, rb |-> <<" ">>]
    /\ line.args = [char |-> <<"-">>, il |-> <<" ">>, im |-> <<"+">>, ir |-> <<"+">>]
    /\ line.out[1] = " "
    /\ line.out[Len(line.out)] = "-"
    /\ Cardinality({j \in 1..Len(line.out) : line.out[j] = "+"}) = MaxLineCols - 1

\* C22: _get_horizontal_line returns a string of exactly table.width
\* characters, and when the fill character is blank (empty or whitespace)
\* every character of it is a space, whatever the intersections are.
C22_LineOfTableWidthBlankWhenFillBlank ==
    line.op = "_get_horizontal_line" =>
        /\ Len(line.out) = LineWidth
        /\ Blank(line.args.char) => \A j \in 1..Len(line.out) : line.out[j] = " "

\* C28: every line of a render, a horizontal line or a line of a row under
\* the strip, ellipsis or wrap policy and any alignment, has display width
\* table.width when every column's printable width is >= 1.
C28_EveryLineHasTableWidth ==
    ( /\ line.op # "none"
      /\ \A i \in 1..Len(line.width) : line.width[i] - 2 * DefaultPadding >= 1 ) =>
        Len(line.out) = LineWidth

====
